---- MODULE Spec2Model ----
(***************************************************************************)
(* A model of the sidecore filesystem core (cmds/sidecore/cpiobilly.go):   *)
(* the cpio-backed composite filesystem fsCPIO with its mount points, and  *)
(* the one-shot NFS mount gate NullAuthHandler, the mode mapping uToGo,    *)
(* and newCPU of cmds/sidecore/main.go, which starts the NFS server and    *)
(* the remote command.                                                     *)
(*                                                                         *)
(* Strings are sequences of one-character strings, so that the byte-wise   *)
(* strings.HasPrefix and the component-wise path/filepath functions are    *)
(* modelled by what they compute.                                          *)
(***************************************************************************)
EXTENDS Integers, Sequences, FiniteSets, TLC

VARIABLES
    phase,      \* "load": reading records; "serve": fsCPIO built; "failed": NewfsCPIO returned an error
    recs,       \* fsCPIO.recs: the record vector
    m,          \* fsCPIO.m: record name -> index (indices are 0-based as in the code)
    mnts,       \* fsCPIO.mnts: the mount list
    host,       \* state of the backing filesystem of each attached mount
    last,       \* the last composite-VFS call and what it returned
    count,      \* NullAuthHandler.count
    pc,         \* per worker: position inside NullAuthHandler.Mount
    req,        \* per worker: the dirpath of the request being served
    cval,       \* per worker: the local c := atomic.AddInt32(&h.count, 1)
    ticket,     \* per worker: the position of its call in the order the calls were made
    issued,     \* the number of Mount calls made so far
    returned,   \* history of the Mount calls that returned, in return order
    hlast,      \* the last ToHandle or FromHandle call and what it returned
    umode,      \* uToGo: the mode word given and the file mode returned
    cpc,        \* newCPU: its position
    gpc,        \* newCPU: the position of the goroutine that runs the command
    sigChan,    \* newCPU: the channel of incoming signals
    errChan,    \* newCPU: the channel of the command's result
    notified,   \* signal.Notify is in force for sigChan
    deferred,   \* newCPU: the deferred calls, the last registered last
    env,        \* c.Env
    ret,        \* newCPU: the error it returns
    sent,       \* the number of sends made on errChan
    nsig,       \* the number of signals that reached the process
    export      \* what srvNFS set up for the command

vfsVars  == <<phase, recs, m, mnts, host, last>>
gateVars == <<count, pc, req, cval, ticket, issued, returned, hlast>>
cpuVars  == <<cpc, gpc, sigChan, errChan, notified, deferred, env, ret, sent, nsig, export>>
vars     == <<phase, recs, m, mnts, host, last, count, pc, req, cval, ticket, issued, returned,
              hlast, umode, cpc, gpc, sigChan, errChan, notified, deferred, env, ret, sent,
              nsig, export>>

----------------------------------------------------------------------------
(* Bounds of the model.                                                    *)

MaxRecs   == 3      \* records read after record 0
MaxMounts == 2      \* mounts handed to NewfsCPIO
MaxCalls  == 4      \* Mount calls issued
NWorkers  == 2      \* concurrent NFS worker threads
MaxSignals == 2     \* signals that reach the process during newCPU
MaxBuf    == 3      \* bytes asked of ReadAt
MaxOff    == 1      \* offset given to ReadAt

----------------------------------------------------------------------------
(* Strings and paths.  A helper that takes an intermediate value as a      *)
(* parameter stands for a local variable of the function it belongs to.    *)

Empty  == << >>
Dot    == <<".">>
DotDot == <<".", ".">>
Sep    == <<"/">>

\* strings.HasPrefix
HasPrefix(s, p) == Len(p) <= Len(s) /\ SubSeq(s, 1, Len(p)) = p

FirstSlash(s) ==
    IF \E i \in 1..Len(s) : s[i] = "/"
    THEN CHOOSE i \in 1..Len(s) : s[i] = "/" /\ \A j \in 1..(i-1) : s[j] # "/"
    ELSE 0

LastSlash(s) ==
    IF \E i \in 1..Len(s) : s[i] = "/"
    THEN CHOOSE i \in 1..Len(s) : s[i] = "/" /\ \A j \in (i+1)..Len(s) : s[j] # "/"
    ELSE 0

\* the "/"-separated elements of s, empty ones included
RECURSIVE Elems(_)
ElemsAt(s, i) ==
    IF i = 0 THEN <<s>>
    ELSE <<SubSeq(s, 1, i-1)>> \o Elems(SubSeq(s, i+1, Len(s)))

Elems(s) == ElemsAt(s, FirstSlash(s))

RECURSIVE JoinElems(_)
JoinElems(es) ==
    IF es = << >> THEN Empty
    ELSE IF Len(es) = 1 THEN es[1]
    ELSE es[1] \o Sep \o JoinElems(Tail(es))

\* path.IsAbs
IsAbs(s) == s # Empty /\ s[1] = "/"

\* the element loop of Clean: "." and empty elements are dropped, ".."
\* removes the element before it
RECURSIVE CleanElems(_, _, _)
CleanElems(es, out, rooted) ==
    IF es = << >> THEN out
    ELSE IF Head(es) = Empty \/ Head(es) = Dot THEN CleanElems(Tail(es), out, rooted)
    ELSE IF Head(es) # DotDot THEN CleanElems(Tail(es), Append(out, Head(es)), rooted)
    ELSE IF out # << >> /\ out[Len(out)] # DotDot
         THEN CleanElems(Tail(es), SubSeq(out, 1, Len(out)-1), rooted)
    ELSE IF rooted THEN CleanElems(Tail(es), out, rooted)
    ELSE CleanElems(Tail(es), Append(out, DotDot), rooted)

CleanJoin(s, r) ==
    IF IsAbs(s) THEN Sep \o r
    ELSE IF r = Empty THEN Dot ELSE r

\* path.Clean / filepath.Clean (Unix)
Clean(s) ==
    IF s = Empty THEN Dot
    ELSE CleanJoin(s, JoinElems(CleanElems(Elems(s), << >>, IsAbs(s))))

\* filepath.Join of two elements
Join(a, b) ==
    IF a = Empty /\ b = Empty THEN Empty
    ELSE IF a = Empty THEN Clean(b)
    ELSE IF b = Empty THEN Clean(a)
    ELSE Clean(a \o Sep \o b)

\* filepath.Dir
Dir(s) == Clean(SubSeq(s, 1, LastSlash(s)))

\* the directory half of filepath.Split
SplitDir(s) == SubSeq(s, 1, LastSlash(s))

RECURSIVE TrimSlashes(_)
TrimSlashes(s) ==
    IF s # Empty /\ s[Len(s)] = "/" THEN TrimSlashes(SubSeq(s, 1, Len(s)-1)) ELSE s

BaseTrimmed(t) ==
    IF t = Empty THEN Sep ELSE SubSeq(t, LastSlash(t)+1, Len(t))

\* path.Base
Base(s) == IF s = Empty THEN Dot ELSE BaseTrimmed(TrimSlashes(s))

RECURSIVE CommonLen(_, _)
CommonLen(bs, ts) ==
    IF bs = << >> \/ ts = << >> \/ Head(bs) # Head(ts) THEN 0
    ELSE 1 + CommonLen(Tail(bs), Tail(ts))

RECURSIVE Ups(_)
Ups(n) == IF n = 0 THEN << >> ELSE <<DotDot>> \o Ups(n-1)

\* the elements of a cleaned path, without the root
PathElems(p) ==
    IF p = Empty \/ p = Sep THEN << >>
    ELSE IF IsAbs(p) THEN Elems(Tail(p))
    ELSE Elems(p)

\* Rel, once the common leading elements are passed: brest and trest are
\* what is left of base and of targ
RelRest(brest, trest) ==
    IF brest # << >> /\ Head(brest) = DotDot THEN [err |-> TRUE, rel |-> Empty]
    ELSE IF brest # << >> THEN [err |-> FALSE, rel |-> JoinElems(Ups(Len(brest)) \o trest)]
    ELSE [err |-> FALSE, rel |-> JoinElems(trest)]

RelFrom(bs, ts, k) == RelRest(SubSeq(bs, k+1, Len(bs)), SubSeq(ts, k+1, Len(ts)))

RelClean(base, targ) ==
    IF targ = base THEN [err |-> FALSE, rel |-> Dot]
    ELSE IF base # Dot /\ IsAbs(base) # IsAbs(targ) THEN [err |-> TRUE, rel |-> Empty]
    ELSE IF base = Dot /\ IsAbs(targ) THEN [err |-> TRUE, rel |-> Empty]
    ELSE IF base = Dot THEN RelFrom(<< >>, PathElems(targ), 0)
    ELSE RelFrom(PathElems(base), PathElems(targ), CommonLen(PathElems(base), PathElems(targ)))

\* filepath.Rel (Unix): [err, rel]
Rel(basepath, targpath) == RelClean(Clean(basepath), Clean(targpath))

----------------------------------------------------------------------------
(* Archive records and the mode word.                                      *)

S_IFDIR == 16384        \* 0040000
S_IFREG == 32768        \* 0100000
S_IFLNK == 40960        \* 0120000

ModeDir     == S_IFDIR + 493    \* 0040755
ModeFile    == S_IFREG + 420    \* 0100644
ModeSymlink == S_IFLNK + 511    \* 0120777

Record(name, mode, data) == [Name |-> name, Mode |-> mode, Data |-> data]

\* uToGo: the Unix mode word as a Go file mode, [type, perm]
uToGo(word) ==
    LET u == word       \* os.FileMode(m): the umode words modelled fit 32 bits
        t == (u \div 4096) % 16
    IN  [perm |-> u % 512,
         type |-> IF t = 1 THEN "pipe"
                  ELSE IF t = 2 THEN "char"
                  ELSE IF t = 4 THEN "dir"
                  ELSE IF t = 6 THEN "device"
                  ELSE IF t = 10 THEN "symlink"
                  ELSE "regular"]

\* fstat.Mode
fstatMode(r) == uToGo(r.Mode)

\* path names used by the model
P_a  == <<"a">>
P_ab == <<"a", "/", "b">>
P_l  == <<"l">>
P_h  == <<"h">>
P_hr == <<"h", "r">>
P_hx == <<"h", "/", "x">>
P_x  == <<"x">>
P_absa == <<"/", "a">>

RootRecord == Record(Dot, ModeDir, Empty)

\* the records the cpio reader may yield after the root
Candidates ==
    { Record(P_a,  ModeDir,     Empty),
      Record(P_ab, ModeDir,     Empty),
      Record(P_ab, ModeFile,    <<"H">>),
      Record(P_l,  ModeDir,     Empty),
      Record(P_l,  ModeSymlink, P_a),
      Record(P_l,  ModeSymlink, P_l),
      Record(P_l,  ModeSymlink, P_absa),
      Record(P_hr, ModeFile,    <<"r">>),
      Record(P_hr, ModeSymlink, P_a) }

\* the prefixes a mount may be given
Prefixes == { P_h, P_a }

\* the paths the NFS framework may ask about
QueryPaths == { Empty, Dot, P_a, P_ab, P_l, P_hr, P_h, P_hx }

RenamePaths == { P_ab, P_h, P_hx, P_hr }

Names(rs) == { rs[i].Name : i \in 1..Len(rs) }

\* record i of the vector, indices from 0 as in the code
RecAt(rs, i) == rs[i + 1]

\* the reader yields a well-formed archive: unique names, and the parent
\* directory of every record precedes it
WellFormedNext(rs, r) ==
    /\ r.Name \notin Names(rs)
    /\ \E i \in 1..Len(rs) :
          /\ rs[i].Name = Dir(r.Name)
          /\ uToGo(rs[i].Mode).type = "dir"

----------------------------------------------------------------------------
(* The backing filesystem of a mount (the local passthrough).              *)

HostInit == [ok |-> TRUE, files |-> {}]

OsExists(h, rel) == h.ok /\ (rel = Dot \/ rel = Empty \/ rel \in h.files)

OsLstat(h, rel) ==
    IF OsExists(h, rel)
    THEN [err |-> "nil", val |-> IF rel \in h.files THEN "osfile" ELSE "osdir"]
    ELSE [err |-> "ErrNotExist", val |-> "none"]

\* the backing filesystem holds no links: Stat answers as Lstat
OsStat(h, rel) == OsLstat(h, rel)

OsOpen(h, rel) ==
    IF OsExists(h, rel) THEN [err |-> "nil", val |-> "oshandle"]
    ELSE [err |-> "ErrNotExist", val |-> "none"]

OsReadDir(h, rel) ==
    IF ~OsExists(h, rel) THEN [err |-> "ErrNotExist", val |-> "none"]
    ELSE IF rel \in h.files THEN [err |-> "ENOTDIR", val |-> "none"]
    ELSE [err |-> "nil", val |-> h.files]

OsReadlink(h, rel) ==
    IF OsExists(h, rel) THEN [err |-> "EINVAL", val |-> "none"]
    ELSE [err |-> "ErrNotExist", val |-> "none"]

----------------------------------------------------------------------------
(* fsCPIO: mounts.                                                         *)

NoMount == [found |-> FALSE, idx |-> 0, rel |-> Empty]

\* one turn of the loop of hasMount at mount i, rel being filepath.Rel's
\* answer for it
RECURSIVE hasMountFrom(_, _, _)
hasMountAt(ms, n, i, rel) ==
    IF HasPrefix(n, ms[i].n) /\ ~rel.err
    THEN [found |-> TRUE, idx |-> i, rel |-> rel.rel]
    ELSE hasMountFrom(ms, n, i + 1)

hasMountFrom(ms, n, i) ==
    IF i > Len(ms) THEN NoMount
    ELSE hasMountAt(ms, n, i, Rel(ms[i].n, n))

\* fsCPIO.hasMount: the first mount whose prefix is a string prefix of n
\* and for which filepath.Rel gives no error
hasMount(ms, n) == hasMountFrom(ms, n, 1)

\* fsCPIO.getfs
getfs(ms, n) == hasMount(ms, n)

\* fsCPIO.mount: the loop variable shadows the parameter, so the test is
\* made on the prefixes of the mounts already attached
mount(ms, mp) ==
    IF \E i \in 1..Len(ms) : hasMount(ms, ms[i].n).found
    THEN [err |-> "ErrExist", mnts |-> ms]
    ELSE [err |-> "nil", mnts |-> Append(ms, mp)]

\* the options of NewfsCPIO applied in order, r being the result so far
RECURSIVE mountAll(_, _)
mountAll(r, mounts) ==
    IF mounts = << >> \/ r.err # "nil" THEN r
    ELSE mountAll(mount(r.mnts, Head(mounts)), Tail(mounts))

\* WithMount
WithMount(n, fs) == [n |-> n, fs |-> fs]

\* the name index built by NewfsCPIO: a later record of the same name wins
BuildIndex(rs) ==
    [n \in Names(rs) |->
        (CHOOSE i \in 1..Len(rs) :
            rs[i].Name = n /\ \A j \in (i+1)..Len(rs) : rs[j].Name # n) - 1]

----------------------------------------------------------------------------
(* fsCPIO: the archive side.                                               *)

\* lookup sending the empty name through the index as well
lookup_EmptyByIndex(mm, filename) ==
    IF filename \in DOMAIN mm
    THEN [err |-> "nil", Path |-> mm[filename]]
    ELSE [err |-> "ErrNotExist", Path |-> 0]

\* fsCPIO.lookup: the empty name is record 0
lookup(mm, filename) ==
    IF Len(filename) > 0
    THEN IF filename \in DOMAIN mm
         THEN [err |-> "nil", Path |-> mm[filename]]
         ELSE [err |-> "ErrNotExist", Path |-> 0]
    ELSE [err |-> "nil", Path |-> 0]

\* file.rec: the bound test is Path > len(recs); Path = len(recs) indexes
\* out of range
rec(rs, Path) ==
    IF Path > Len(rs) THEN "ErrNotExist"
    ELSE IF Path = Len(rs) THEN "panic"
    ELSE "nil"

RECURSIVE readdirScan(_, _, _)
\* readdirStep ending the scan at a record deeper than a child
readdirStep_StopAtDeeper(rs, dn, i, b) ==
    IF b.err THEN << >>
    ELSE IF Len(SplitDir(b.rel)) > 0 THEN << >>
    ELSE <<i>> \o readdirScan(rs, dn, i + 1)

\* the scan of file.readdir from record i on: it ends where filepath.Rel
\* fails and skips a record whose relative name b has a directory part
readdirStep(rs, dn, i, b) ==
    IF b.err THEN << >>
    ELSE IF Len(SplitDir(b.rel)) > 0 THEN readdirScan(rs, dn, i + 1)
    ELSE <<i>> \o readdirScan(rs, dn, i + 1)

readdirScan(rs, dn, i) ==
    IF i >= Len(rs) THEN << >>
    ELSE readdirStep(rs, dn, i, Rel(dn, RecAt(rs, i).Name))

\* file.readdir
readdir(rs, Path) ==
    IF rec(rs, Path) # "nil" THEN [err |-> rec(rs, Path), list |-> << >>]
    ELSE [err |-> "nil", list |-> readdirScan(rs, RecAt(rs, Path).Name, Path + 1)]

\* the loop of file.ReadDir over list[offset:]: the entry looked at is
\* record list[k] + offset
RECURSIVE direntsFrom(_, _, _, _)
direntsAdd(e, p, rest) ==
    IF e = "panic" \/ rest.err = "panic" THEN [err |-> "panic", list |-> << >>]
    ELSE IF e # "nil" THEN rest
    ELSE [err |-> "nil", list |-> <<p>> \o rest.list]

direntsFrom(rs, list, offset, k) ==
    IF k > Len(list) THEN [err |-> "nil", list |-> << >>]
    ELSE direntsAdd(rec(rs, list[k] + offset), list[k] + offset,
                    direntsFrom(rs, list, offset, k + 1))

fileReadDirOf(rs, l, offset) ==
    IF l.err # "nil" THEN l
    ELSE IF offset > Len(l.list) THEN [err |-> "EOF", list |-> << >>]
    ELSE direntsFrom(rs, l.list, offset, offset + 1)

\* file.ReadDir: the records listed, as record indices
fileReadDir(rs, Path, offset) == fileReadDirOf(rs, readdir(rs, Path), offset)

\* Record.ReadAt (io.ReaderAt over the payload): n bytes wanted from offset
\* off; fewer bytes than wanted come with io.EOF
RecReadAt(r, n, off) ==
    IF off >= Len(r.Data) THEN [err |-> "EOF", n |-> 0, bytes |-> Empty]
    ELSE IF n > Len(r.Data) - off
    THEN [err |-> "EOF", n |-> Len(r.Data) - off,
          bytes |-> SubSeq(r.Data, off + 1, Len(r.Data))]
    ELSE [err |-> "nil", n |-> n, bytes |-> SubSeq(r.Data, off + 1, off + n)]

\* the end of file.Readlink: rd is what reading FileSize bytes at 0 gave
fileReadlinkRead(r, rd) ==
    IF rd.err # "nil" \/ rd.n # Len(r.Data) THEN [err |-> rd.err, val |-> Empty]
    ELSE [err |-> "nil", val |-> rd.bytes]

\* fileReadlink without the test of the record's type
fileReadlink_AnyType(rs, Path) ==
    IF rec(rs, Path) # "nil" THEN [err |-> rec(rs, Path), val |-> Empty]
    ELSE fileReadlinkRead(RecAt(rs, Path),
                          RecReadAt(RecAt(rs, Path), Len(RecAt(rs, Path).Data), 0))

\* file.Readlink
fileReadlink(rs, Path) ==
    IF rec(rs, Path) # "nil" THEN [err |-> rec(rs, Path), val |-> Empty]
    ELSE IF fstatMode(RecAt(rs, Path)).type # "symlink"
         THEN [err |-> "ErrInvalid", val |-> Empty]
         ELSE fileReadlinkRead(RecAt(rs, Path),
                               RecReadAt(RecAt(rs, Path), Len(RecAt(rs, Path).Data), 0))

\* fileReadAt reading the record after the handle's
fileReadAt_NextRecord(rs, Path, n, off) ==
    IF rec(rs, Path + 1) # "nil"
    THEN [err |-> rec(rs, Path + 1), val |-> [n |-> -1, bytes |-> Empty]]
    ELSE [err |-> RecReadAt(RecAt(rs, Path + 1), n, off).err,
          val |-> [n |-> RecReadAt(RecAt(rs, Path + 1), n, off).n,
                   bytes |-> RecReadAt(RecAt(rs, Path + 1), n, off).bytes]]

\* file.ReadAt: [n, bytes] read into a buffer of n bytes
fileReadAt(rs, Path, n, off) ==
    IF rec(rs, Path) # "nil"
    THEN [err |-> rec(rs, Path), val |-> [n |-> -1, bytes |-> Empty]]
    ELSE [err |-> RecReadAt(RecAt(rs, Path), n, off).err,
          val |-> [n |-> RecReadAt(RecAt(rs, Path), n, off).n,
                   bytes |-> RecReadAt(RecAt(rs, Path), n, off).bytes]]

\* file.WriteAt
fileWriteAt(rs, Path, n, off) == [err |-> "ErrPermission", val |-> -1]

\* fileFail.Write, fileFail.Read, fileFail.Seek: each panics before its
\* return statement
fileFailWrite(n)          == [err |-> "panic", val |-> "Write"]
fileFailRead(n)           == [err |-> "panic", val |-> "Read"]
fileFailSeek(off, whence) == [err |-> "panic", val |-> "Seek"]

\* ok.Close
okClose == [err |-> "nil", val |-> 0]

\* what a call returns: the layer that answered, the mount and the path
\* handed to it, the error, the value
Answer(via, idx, rel, err, val) ==
    [via |-> via, idx |-> idx, rel |-> rel, err |-> err, val |-> val]

Forward(g, r) == Answer("mount", g.idx, g.rel, r.err, r.val)

FromArchive(r) == Answer("archive", 0, Empty, r.err, r.val)

ReadlinkAt(rs, l) ==
    IF l.err # "nil" THEN Answer("archive", 0, Empty, l.err, Empty)
    ELSE FromArchive(fileReadlink(rs, l.Path))

ReadlinkVia(rs, mm, hs, link, g) ==
    IF g.found THEN Forward(g, OsReadlink(hs[g.idx], g.rel))
    ELSE ReadlinkAt(rs, lookup(mm, link))

\* fsCPIO.Readlink
Readlink(rs, mm, ms, hs, link) == ReadlinkVia(rs, mm, hs, link, getfs(ms, link))

\* the bound on the links followed by resolvelink
MaxLinks == 20

\* one turn of the loop of resolvelink, r being what Readlink answered
RECURSIVE resolveLoop(_, _, _, _, _, _)
resolveStep(rs, mm, ms, hs, filename, linkcount, r) ==
    IF linkcount > 0 /\ r.err = "ErrInvalid"
    THEN [name |-> filename, err |-> "nil", hops |-> linkcount]
    ELSE IF r.err # "nil"
    THEN [name |-> filename, err |-> r.err, hops |-> linkcount]
    ELSE resolveLoop(rs, mm, ms, hs,
                     IF ~IsAbs(r.val) THEN Join(Dir(filename), r.val) ELSE r.val,
                     linkcount + 1)

resolveLoop(rs, mm, ms, hs, filename, linkcount) ==
    IF linkcount > MaxLinks
    THEN [name |-> Empty, err |-> "ELOOP", hops |-> linkcount]
    ELSE resolveStep(rs, mm, ms, hs, filename, linkcount,
                     Readlink(rs, mm, ms, hs, filename))

\* fsCPIO.resolvelink
resolvelink(rs, mm, ms, hs, filename) == resolveLoop(rs, mm, ms, hs, filename, 0)

\* an entry of a listing: an archive record or a mount
RecEntry(rs, i)   == [kind |-> "rec", idx |-> i, name |-> Base(RecAt(rs, i).Name)]
MountEntry(ms, i) == [kind |-> "mount", idx |-> i, name |-> ms[i].n]

RecEntries(rs, list) == [k \in 1..Len(list) |-> RecEntry(rs, list[k])]

\* mountEntries with the error of Lstat(".") ignored
mountEntries_IgnoreLstat(ms, hs, i) == [k \in 1..Len(ms) |-> MountEntry(ms, k)]

\* the loop of fsCPIO.ReadDir over the mounts: the first mount whose
\* Lstat(".") fails ends the listing
RECURSIVE mountEntries(_, _, _)
mountEntries(ms, hs, i) ==
    IF i > Len(ms) THEN << >>
    ELSE IF OsLstat(hs[i], Dot).err # "nil" THEN << >>
    ELSE <<MountEntry(ms, i)>> \o mountEntries(ms, hs, i + 1)

\* the end of fsCPIO.ReadDir: fi is what file.ReadDir gave
ReadDirListed(rs, ms, hs, filename, fi) ==
    IF fi.err = "panic" THEN Answer("archive", 0, Empty, "panic", << >>)
    ELSE IF Len(filename) = 0
    THEN Answer("archive", 0, Empty,
                IF \E i \in 1..Len(ms) : OsLstat(hs[i], Dot).err # "nil"
                THEN "nil" ELSE fi.err,
                RecEntries(rs, fi.list) \o mountEntries(ms, hs, 1))
    ELSE Answer("archive", 0, Empty, fi.err, RecEntries(rs, fi.list))

ReadDirAt(rs, ms, hs, filename, l) ==
    IF l.err # "nil" THEN Answer("archive", 0, Empty, l.err, << >>)
    ELSE ReadDirListed(rs, ms, hs, filename, fileReadDir(rs, l.Path, 0))

ReadDirNamed(rs, mm, ms, hs, filename) ==
    ReadDirAt(rs, ms, hs, filename, lookup(mm, filename))

ReadDirResolved(rs, mm, ms, hs, filename, s) ==
    ReadDirNamed(rs, mm, ms, hs, IF s.err = "nil" THEN s.name ELSE filename)

ReadDirVia(rs, mm, ms, hs, filename, g) ==
    IF g.found THEN Forward(g, OsReadDir(hs[g.idx], g.rel))
    ELSE ReadDirResolved(rs, mm, ms, hs, filename,
                         resolvelink(rs, mm, ms, hs, filename))

\* fsCPIO.ReadDir
ReadDir(rs, mm, ms, hs, filename) ==
    ReadDirVia(rs, mm, ms, hs, filename, getfs(ms, filename))

\* the archive's answer to Stat, Lstat and Open: the record looked up
Looked(l) ==
    IF l.err # "nil" THEN Answer("archive", 0, Empty, l.err, 0)
    ELSE Answer("archive", 0, Empty, "nil", l.Path)

StatVia(mm, hs, filename, g) ==
    IF g.found THEN Forward(g, OsStat(hs[g.idx], g.rel))
    ELSE Looked(lookup(mm, filename))

\* Stat with the call of resolvelink that the source keeps as a comment
Stat_Resolving(rs, mm, ms, hs, filename) ==
    StatVia(mm, hs,
            IF resolvelink(rs, mm, ms, hs, filename).err = "nil"
            THEN resolvelink(rs, mm, ms, hs, filename).name ELSE filename,
            getfs(ms, filename))

\* fsCPIO.Stat: the record itself, links are not followed
Stat(rs, mm, ms, hs, filename) == StatVia(mm, hs, filename, getfs(ms, filename))

LstatVia(mm, hs, filename, g) ==
    IF g.found THEN Forward(g, OsLstat(hs[g.idx], g.rel))
    ELSE Looked(lookup(mm, filename))

\* fsCPIO.Lstat
Lstat(rs, mm, ms, hs, filename) == LstatVia(mm, hs, filename, getfs(ms, filename))

OpenVia(mm, hs, filename, g) ==
    IF g.found THEN Forward(g, OsOpen(hs[g.idx], g.rel))
    ELSE Looked(lookup(mm, filename))

\* fsCPIO.Open
Open(rs, mm, ms, hs, filename) == OpenVia(mm, hs, filename, getfs(ms, filename))

\* fsCPIO.Create: no mount is consulted
Create(ms, filename) == Answer("none", 0, Empty, "ErrPermission", 0)

\* noRename reporting success
noRename_Accepts(ms, oldpath, newpath) == Answer("none", 0, Empty, "nil", 0)

\* noRename answering with the error of no.Create
noRename_Invalid(ms, oldpath, newpath) == Answer("none", 0, Empty, "ErrInvalid", 0)

\* the write side that fsCPIO inherits from the embedded struct no
noRename(ms, oldpath, newpath) == Answer("none", 0, Empty, "ErrPermission", 0)
noRemove(ms, filename)         == Answer("none", 0, Empty, "ErrPermission", 0)
noMkdirAll(ms, filename)       == Answer("none", 0, Empty, "ErrPermission", 0)
noSymlink(ms, target, link)    == Answer("none", 0, Empty, "ErrPermission", 0)

----------------------------------------------------------------------------
(* The composite filesystem as a state machine.                            *)

NoCall == [op |-> "none", path |-> Empty, path2 |-> Empty,
           via |-> "none", idx |-> 0, rel |-> Empty, err |-> "nil", val |-> 0]

Call(op, p, p2, a) ==
    [op |-> op, path |-> p, path2 |-> p2,
     via |-> a.via, idx |-> a.idx, rel |-> a.rel, err |-> a.err, val |-> a.val]

\* what a forwarded write does to the backing filesystem
OsWrite(h, op, rel) ==
    IF ~h.ok THEN h
    ELSE IF op \in {"Create", "MkdirAll", "Symlink"} THEN [h EXCEPT !.files = @ \cup {rel}]
    ELSE IF op = "Remove" THEN [h EXCEPT !.files = @ \ {rel}]
    ELSE h

HostAfter(hs, op, a) ==
    IF a.via = "mount" THEN [hs EXCEPT ![a.idx] = OsWrite(@, op, a.rel)] ELSE hs

MountLists == UNION { [1..k -> Prefixes] : k \in 0..MaxMounts }

VfsInit ==
    /\ phase = "load"
    /\ recs = << >>
    /\ m = << >>
    /\ mnts = << >>
    /\ host = << >>
    /\ last = NoCall

\* cpio.ReadAllRecords yields one more record
ReadRecord(r) ==
    /\ phase = "load"
    /\ Len(recs) <= MaxRecs
    /\ IF recs = << >> THEN r = RootRecord ELSE WellFormedNext(recs, r)
    /\ recs' = Append(recs, r)
    /\ UNCHANGED <<phase, m, mnts, host, last>>
    /\ UNCHANGED <<gateVars, cpuVars, umode>>

\* the end of NewfsCPIO(c, mounts...) for the prefixes ps of the mounts,
\* r being what applying the options gave
NewfsCPIOWith(ps, r) ==
    IF Len(recs) = 0
    THEN /\ phase' = "failed"
         /\ last' = Call("NewfsCPIO", Empty, Empty, Answer("none", 0, Empty, "ErrInvalid", ps))
         /\ UNCHANGED <<m, mnts, host>>
    ELSE IF r.err # "nil"
    THEN /\ phase' = "failed"
         /\ last' = Call("NewfsCPIO", Empty, Empty, Answer("none", 0, Empty, r.err, ps))
         /\ UNCHANGED <<m, mnts, host>>
    ELSE /\ phase' = "serve"
         /\ m' = BuildIndex(recs)
         /\ mnts' = r.mnts
         /\ host' = [i \in 1..Len(r.mnts) |-> HostInit]
         /\ last' = Call("NewfsCPIO", Empty, Empty, Answer("none", 0, Empty, "nil", ps))

\* NewfsCPIO with the mounts applied to a filesystem that is being served
NewfsCPIO_AnyTime(prefixes) ==
    /\ phase \in {"load", "serve"}
    /\ NewfsCPIOWith(prefixes,
                     mountAll([err |-> "nil", mnts |-> << >>],
                              [i \in 1..Len(prefixes) |-> WithMount(prefixes[i], i)]))
    /\ UNCHANGED recs
    /\ UNCHANGED <<gateVars, cpuVars, umode>>

\* NewfsCPIO(c, mounts...)
NewfsCPIO(prefixes) ==
    /\ phase = "load"
    /\ NewfsCPIOWith(prefixes,
                     mountAll([err |-> "nil", mnts |-> << >>],
                              [i \in 1..Len(prefixes) |-> WithMount(prefixes[i], i)]))
    /\ UNCHANGED recs
    /\ UNCHANGED <<gateVars, cpuVars, umode>>

\* the host directory behind a mount changes under the server
HostChange(i) ==
    /\ phase = "serve"
    /\ last.op = "none"
    /\ i \in 1..Len(mnts)
    /\ \/ host' = [host EXCEPT ![i].ok = ~@]
       \/ host' = [host EXCEPT ![i].files = IF P_x \in @ THEN @ \ {P_x} ELSE @ \cup {P_x}]
    /\ UNCHANGED <<phase, recs, m, mnts, last>>
    /\ UNCHANGED <<gateVars, cpuVars, umode>>

ReadCall(op, p, a) ==
    /\ phase = "serve"
    /\ last.op = "none"
    /\ last' = Call(op, p, Empty, a)
    /\ UNCHANGED <<phase, recs, m, mnts, host>>
    /\ UNCHANGED <<gateVars, cpuVars, umode>>

\* the caller has taken the answer of the last call
Taken ==
    /\ phase = "serve"
    /\ last.op # "none"
    /\ last' = NoCall
    /\ UNCHANGED <<phase, recs, m, mnts, host>>
    /\ UNCHANGED <<gateVars, cpuVars, umode>>

WriteCall(op, p, p2, a) ==
    /\ phase = "serve"
    /\ last.op = "none"
    /\ last' = Call(op, p, p2, a)
    /\ host' = HostAfter(host, op, a)
    /\ UNCHANGED <<phase, recs, m, mnts>>
    /\ UNCHANGED <<gateVars, cpuVars, umode>>

CallStat(p)     == ReadCall("Stat", p, Stat(recs, m, mnts, host, p))
CallLstat(p)    == ReadCall("Lstat", p, Lstat(recs, m, mnts, host, p))
CallOpen(p)     == ReadCall("Open", p, Open(recs, m, mnts, host, p))
CallReadDir(p)  == ReadCall("ReadDir", p, ReadDir(recs, m, mnts, host, p))
CallReadlink(p) == ReadCall("Readlink", p, Readlink(recs, m, mnts, host, p))
CallCreate(p)   == WriteCall("Create", p, Empty, Create(mnts, p))
CallMkdirAll(p) == WriteCall("MkdirAll", p, Empty, noMkdirAll(mnts, p))
CallRemove(p)   == WriteCall("Remove", p, Empty, noRemove(mnts, p))
CallRename(o, n) == WriteCall("Rename", o, n, noRename(mnts, o, n))
CallSymlink(t, l) == WriteCall("Symlink", l, t, noSymlink(mnts, t, l))

\* a call on the handle h that Open(p) gave for an archive name
HandleCall(op, p, h, r) ==
    /\ phase = "serve"
    /\ last.op = "none"
    /\ h.via = "archive"
    /\ h.err = "nil"
    /\ last' = Call(op, p, Empty, FromArchive(r))
    /\ UNCHANGED <<phase, recs, m, mnts, host>>
    /\ UNCHANGED <<gateVars, cpuVars, umode>>

\* what ReadAt gave, with the buffer size and the offset asked
ReadAtAnswer(r, n, off) ==
    [err |-> r.err,
     val |-> [n |-> r.val.n, bytes |-> r.val.bytes, want |-> n, off |-> off]]

CallReadAt(p, n, off) ==
    HandleCall("ReadAt", p, Open(recs, m, mnts, host, p),
               ReadAtAnswer(fileReadAt(recs, Open(recs, m, mnts, host, p).val, n, off),
                            n, off))
CallWriteAt(p, n, off) ==
    HandleCall("WriteAt", p, Open(recs, m, mnts, host, p),
               fileWriteAt(recs, Open(recs, m, mnts, host, p).val, n, off))
CallWrite(p, n) == HandleCall("Write", p, Open(recs, m, mnts, host, p), fileFailWrite(n))
CallRead(p, n)  == HandleCall("Read", p, Open(recs, m, mnts, host, p), fileFailRead(n))
CallSeek(p, off) == HandleCall("Seek", p, Open(recs, m, mnts, host, p), fileFailSeek(off, 0))
CallClose(p)    == HandleCall("Close", p, Open(recs, m, mnts, host, p), okClose)

----------------------------------------------------------------------------
(* NullAuthHandler: the mount gate.                                        *)

MaxInt32 == 2147483647

Nonce    == "nonce"
Dirpaths == { "nonce", "other" }
Workers  == 1..NWorkers

\* atomic.AddInt32: the new value, wrapping in 32 bits
AddInt32(v, d) ==
    IF d > 0 /\ v > MaxInt32 - d THEN (v - MaxInt32 - 1) + (d - MaxInt32 - 1)
    ELSE IF d < 0 /\ v < (-MaxInt32 - 1) - d THEN (v + MaxInt32 + 1) + (d + MaxInt32 + 1)
    ELSE v + d

\* MountResult with the count test off by one
MountResult_CountFromTwo(c, dirpath, n) ==
    IF c > 2
    THEN [status |-> "MountStatusErrPerm", hndl |-> "nil", auths |-> << >>]
    ELSE IF dirpath # n
    THEN [status |-> "MountStatusErrNoEnt", hndl |-> "nil", auths |-> << >>]
    ELSE [status |-> "MountStatusOk", hndl |-> "fs", auths |-> <<"AuthFlavorNull">>]

\* MountResult with the filesystem assigned before the dirpath is tested
MountResult_HandleEarly(c, dirpath, n) ==
    IF c > 1
    THEN [status |-> "MountStatusErrPerm", hndl |-> "nil", auths |-> << >>]
    ELSE IF dirpath # n
    THEN [status |-> "MountStatusErrNoEnt", hndl |-> "fs", auths |-> <<"AuthFlavorNull">>]
    ELSE [status |-> "MountStatusOk", hndl |-> "fs", auths |-> <<"AuthFlavorNull">>]

\* NullAuthHandler.Mount after the increment: status, filesystem, auth flavors
MountResult(c, dirpath, n) ==
    IF c > 1
    THEN [status |-> "MountStatusErrPerm", hndl |-> "nil", auths |-> << >>]
    ELSE IF dirpath # n
    THEN [status |-> "MountStatusErrNoEnt", hndl |-> "nil", auths |-> << >>]
    ELSE [status |-> "MountStatusOk", hndl |-> "fs", auths |-> <<"AuthFlavorNull">>]

\* the arguments the NFS server gives ToHandle and FromHandle
HandleFs    == { "fs", "nil" }
HandlePaths == { << >>, <<"a">> }
HandleBytes == { << >>, <<"a">> }

NoHandleCall ==
    [op |-> "none", f |-> "nil", s |-> << >>, b |-> << >>,
     bytes |-> << >>, fs |-> "nil", path |-> << >>, err |-> "nil"]

GateInit ==
    /\ count = 0
    /\ pc = [w \in Workers |-> "idle"]
    /\ req = [w \in Workers |-> "none"]
    /\ cval = [w \in Workers |-> 0]
    /\ ticket = [w \in Workers |-> 0]
    /\ issued = 0
    /\ returned = << >>
    /\ hlast = NoHandleCall

\* MountAdd with the counter advanced only when the dirpath is the nonce
MountAdd_CountOnMatch(w, d) ==
    /\ pc[w] = "idle"
    /\ issued < MaxCalls
    /\ count' = IF d = Nonce THEN AddInt32(count, 1) ELSE count
    /\ cval' = [cval EXCEPT ![w] = IF d = Nonce THEN AddInt32(count, 1) ELSE count]
    /\ req' = [req EXCEPT ![w] = d]
    /\ issued' = issued + 1
    /\ ticket' = [ticket EXCEPT ![w] = issued + 1]
    /\ pc' = [pc EXCEPT ![w] = "check"]
    /\ UNCHANGED <<returned, hlast>>
    /\ UNCHANGED <<vfsVars, cpuVars, umode>>

\* MountAdd with a load and a store in place of the atomic add: a worker
\* that loads while another call is in flight reads the value that call read
MountAdd_LoadStore(w, d) ==
    /\ pc[w] = "idle"
    /\ issued < MaxCalls
    /\ count' = IF \E v \in Workers : pc[v] = "check" THEN count ELSE AddInt32(count, 1)
    /\ cval' = [cval EXCEPT ![w] = IF \E v \in Workers : pc[v] = "check"
                                   THEN count ELSE AddInt32(count, 1)]
    /\ req' = [req EXCEPT ![w] = d]
    /\ issued' = issued + 1
    /\ ticket' = [ticket EXCEPT ![w] = issued + 1]
    /\ pc' = [pc EXCEPT ![w] = "check"]
    /\ UNCHANGED <<returned, hlast>>
    /\ UNCHANGED <<vfsVars, cpuVars, umode>>

\* Mount, up to and including c := atomic.AddInt32(&h.count, 1)
MountAdd(w, d) ==
    /\ pc[w] = "idle"
    /\ issued < MaxCalls
    /\ count' = AddInt32(count, 1)
    /\ cval' = [cval EXCEPT ![w] = AddInt32(count, 1)]
    /\ req' = [req EXCEPT ![w] = d]
    /\ issued' = issued + 1
    /\ ticket' = [ticket EXCEPT ![w] = issued + 1]
    /\ pc' = [pc EXCEPT ![w] = "check"]
    /\ UNCHANGED <<returned, hlast>>
    /\ UNCHANGED <<vfsVars, cpuVars, umode>>

\* Mount, from the test of c to the return
MountReturn(w) ==
    LET r == MountResult(cval[w], req[w], Nonce)
    IN  /\ pc[w] = "check"
        /\ returned' = Append(returned,
               [ticket |-> ticket[w], c |-> cval[w], dirpath |-> req[w],
                status |-> r.status, hndl |-> r.hndl, auths |-> r.auths])
        /\ pc' = [pc EXCEPT ![w] = "idle"]
        /\ UNCHANGED <<count, req, cval, ticket, issued, hlast>>
        /\ UNCHANGED <<vfsVars, cpuVars, umode>>

\* ToHandle encoding the path into the handle
ToHandle_Path(f, s) == s

\* NullAuthHandler.ToHandle: the bytes returned
ToHandle(f, s) == << >>

\* NullAuthHandler.FromHandle: filesystem, path, error
FromHandle(b) == [fs |-> "nil", path |-> << >>, err |-> "nil"]

\* the NFS server calls ToHandle
CallToHandle(f, s) ==
    /\ hlast.op = "none"
    /\ hlast' = [op |-> "ToHandle", f |-> f, s |-> s, b |-> << >>,
                 bytes |-> ToHandle(f, s), fs |-> "nil", path |-> << >>, err |-> "nil"]
    /\ UNCHANGED <<count, pc, req, cval, ticket, issued, returned>>
    /\ UNCHANGED <<vfsVars, cpuVars, umode>>

\* the NFS server calls FromHandle
CallFromHandle(b) ==
    /\ hlast.op = "none"
    /\ hlast' = [op |-> "FromHandle", f |-> "nil", s |-> << >>, b |-> b,
                 bytes |-> << >>, fs |-> FromHandle(b).fs, path |-> FromHandle(b).path,
                 err |-> FromHandle(b).err]
    /\ UNCHANGED <<count, pc, req, cval, ticket, issued, returned>>
    /\ UNCHANGED <<vfsVars, cpuVars, umode>>

\* the NFS server has taken the answer of the last handle call
HandleTaken ==
    /\ hlast.op # "none"
    /\ hlast' = NoHandleCall
    /\ UNCHANGED <<count, pc, req, cval, ticket, issued, returned>>
    /\ UNCHANGED <<vfsVars, cpuVars, umode>>

----------------------------------------------------------------------------
(* Specifications.                                                         *)

\* newCPU has not been called
CpuOff ==
    /\ cpc = "off" /\ gpc = "none"
    /\ sigChan = [buf |-> << >>, closed |-> FALSE]
    /\ errChan = [buf |-> << >>, closed |-> FALSE]
    /\ notified = FALSE
    /\ deferred = << >>
    /\ env = << >>
    /\ ret = "nil"
    /\ sent = 0
    /\ nsig = 0
    /\ export = [on |-> FALSE]

\* the mode words given to uToGo: every file type of the switch, the
\* socket type it has no case for, and permission bits with and without
\* setuid, setgid and sticky
ModeWords ==
    { t * 4096 + p : t \in {0, 1, 2, 4, 6, 8, 10, 12},
                     p \in {0, 420, 493, 511, 1023, 1517, 2541, 4095} }

\* a call of uToGo
CalluToGo ==
    /\ umode.go.type = "none"
    /\ umode' = [umode EXCEPT !.go = uToGo(umode.u)]
    /\ UNCHANGED <<vfsVars, gateVars, cpuVars>>

\* the handler serves a filesystem that was built from the smallest archive
ServingVfs ==
    /\ phase = "serve"
    /\ recs = <<RootRecord>>
    /\ m = BuildIndex(<<RootRecord>>)
    /\ mnts = << >>
    /\ host = << >>
    /\ last = NoCall

Init == VfsInit /\ GateInit /\ CpuOff /\ umode = [u |-> 0, go |-> [perm |-> 0, type |-> "none"]]

Next ==
    \/ \E r \in Candidates \cup {RootRecord} : ReadRecord(r)
    \/ \E ps \in MountLists : NewfsCPIO(ps)
    \/ \E i \in 1..MaxMounts : HostChange(i)
    \/ \E p \in QueryPaths : CallStat(p)
    \/ \E p \in QueryPaths : CallLstat(p)
    \/ \E p \in QueryPaths : CallOpen(p)
    \/ \E p \in QueryPaths : CallReadDir(p)
    \/ \E p \in QueryPaths : CallReadlink(p)
    \/ \E p \in QueryPaths : CallCreate(p)
    \/ \E p \in QueryPaths : CallMkdirAll(p)
    \/ \E p \in QueryPaths : CallRemove(p)
    \/ \E o \in RenamePaths, n \in RenamePaths : CallRename(o, n)
    \/ \E l \in QueryPaths : CallSymlink(P_x, l)
    \/ \E p \in QueryPaths, n \in 0..MaxBuf, off \in 0..MaxOff : CallReadAt(p, n, off)
    \/ \E p \in QueryPaths, n \in 0..MaxBuf : CallWriteAt(p, n, 0)
    \/ \E p \in QueryPaths : CallWrite(p, 1)
    \/ \E p \in QueryPaths : CallRead(p, 1)
    \/ \E p \in QueryPaths : CallSeek(p, 0)
    \/ \E p \in QueryPaths : CallClose(p)
    \/ Taken

\* the composite filesystem: loading, construction, and the calls on it
Spec == Init /\ [][Next]_vars

GateStart == ServingVfs /\ GateInit /\ CpuOff /\ umode = [u |-> 0, go |-> [perm |-> 0, type |-> "none"]]

GateStep ==
    \/ \E w \in Workers, d \in Dirpaths : MountAdd(w, d)
    \/ \E w \in Workers : MountReturn(w)
    \/ \E f \in HandleFs, s \in HandlePaths : CallToHandle(f, s)
    \/ \E b \in HandleBytes : CallFromHandle(b)
    \/ HandleTaken

\* the mount gate, with NWorkers workers calling Mount concurrently
GateSpec == GateStart /\ [][GateStep]_vars

\* the handler after MaxInt32 - 1 calls of Mount, no call in progress
GateWorn ==
    /\ count = MaxInt32 - 1
    /\ pc = [w \in Workers |-> "idle"]
    /\ req = [w \in Workers |-> "none"]
    /\ cval = [w \in Workers |-> 0]
    /\ ticket = [w \in Workers |-> 0]
    /\ issued = 0
    /\ returned = << >>
    /\ hlast = NoHandleCall

WornStart == ServingVfs /\ GateWorn /\ CpuOff /\ umode = [u |-> 0, go |-> [perm |-> 0, type |-> "none"]]

\* the mount gate of a long-lived server, the counter near the end of its range
WornSpec == WornStart /\ [][GateStep]_vars

ModeStart ==
    /\ ServingVfs /\ GateInit /\ CpuOff
    /\ umode \in [u : ModeWords, go : {[perm |-> 0, type |-> "none"]}]

\* uToGo applied to a mode word
ModeSpec == ModeStart /\ [][CalluToGo]_vars

----------------------------------------------------------------------------
(* newCPU (cmds/sidecore/main.go): the environment of the remote command,  *)
(* the goroutine that runs it, the two channels and the deferred calls.    *)
(* An environment entry is a sequence of tokens, "=" being a token.        *)

\* the fstab line srvNFS formats for the nonce u and the port portnfs
fstabLine(opt, u, portnfs) ==
    <<"127.0.0.1:", u, " /tmp/cpu nfs ", opt, ",port", "=", portnfs,
      ",mountport", "=", portnfs, " 0 0\n">>

\* srvNFS(cl, n, dir): arch is what NewfsCPIO returns for the archive n,
\* lis the network on which cl.Listen succeeds
srvNFS(dir, arch, lis) ==
    IF Rel(Sep, dir).err
    THEN [err |-> "Rel", fstab |-> << >>, opt |-> "", wrapped |-> FALSE, mounts |-> << >>]
    ELSE IF arch # "nil"
    THEN [err |-> arch, fstab |-> << >>, opt |-> "", wrapped |-> FALSE, mounts |-> << >>]
    ELSE IF lis = "none"
    THEN [err |-> "listen", fstab |-> << >>, opt |-> "", wrapped |-> FALSE, mounts |-> << >>]
    ELSE [err |-> "nil", fstab |-> fstabLine("ro", "uuid", "port"), opt |-> "ro",
          wrapped |-> FALSE, mounts |-> <<Rel(Sep, dir).rel>>]

\* strings.SplitN(r, "=", 2)[1] for an entry r that holds a "=" at i or later
RECURSIVE AfterEq(_, _)
AfterEq(r, i) ==
    IF i > Len(r) THEN << >>
    ELSE IF r[i] = "=" THEN SubSeq(r, i + 1, Len(r))
    ELSE AfterEq(r, i + 1)

\* the loop of newCPU over c.Env: the value of the first entry that
\* begins with CPU_FSTAB=
RECURSIVE oldenvFrom(_, _)
oldenvFrom(e, i) ==
    IF i > Len(e) THEN << >>
    ELSE IF ~HasPrefix(e[i], <<"CPU_FSTAB", "=">>) THEN oldenvFrom(e, i + 1)
    ELSE AfterEq(e[i], 1)

\* envWithFstab with the previous value dropped
envWithFstab_Replace(e, fstab) ==
    Append(e, <<"CPU_FSTAB", "=">> \o fstab)

\* c.Env = append(c.Env, "CPU_FSTAB="+fstab+oldenv)
envWithFstab(e, fstab) ==
    Append(e, <<"CPU_FSTAB", "=">> \o fstab \o oldenvFrom(e, 1))

\* newCPU is entered: c.Env is os.Environ() followed by the entries of the
\* flag -env, and c.Close is deferred
CpuInit ==
    /\ cpc = "dial" /\ gpc = "none"
    /\ sigChan = [buf |-> << >>, closed |-> FALSE]
    /\ errChan = [buf |-> << >>, closed |-> FALSE]
    /\ notified = FALSE
    /\ deferred = <<"c.Close">>
    /\ env \in { a \o b :
                   a \in { << >>,
                           << <<"PATH", "=", "/bin">> >>,
                           << <<"PATH", "=", "/bin">>, <<"CPU_FSTAB", "=", "o", "=", "1">> >>,
                           << <<"CPU_FSTAB", "=", "o", "=", "1">>, <<"PATH", "=", "/bin">> >>,
                           << <<"CPU_FSTAB", "=">> >> },
                   b \in { << >>, << <<"CPU_FSTAB", "=", "n">> >> } }
    /\ ret = "nil"
    /\ sent = 0
    /\ nsig = 0
    /\ export = [on |-> FALSE]

\* the deferred calls with signal.Stop registered before close(sigChan)
sigDefers_CloseFirst == <<"signal.Stop", "close(sigChan)", "close(errChan)">>

\* the calls newCPU defers after Dial, in the order it registers them
sigDefers == <<"close(sigChan)", "signal.Stop", "close(errChan)">>

\* c.Dial, and on success the channels, notify and the deferred calls
Dial(ok) ==
    /\ cpc = "dial"
    /\ IF ok
       THEN /\ cpc' = "nfs"
            /\ notified' = TRUE
            /\ deferred' = deferred \o sigDefers
            /\ UNCHANGED ret
       ELSE /\ cpc' = "return"
            /\ ret' = "Dial"
            /\ UNCHANGED <<notified, deferred>>
    /\ UNCHANGED <<gpc, sigChan, errChan, env, sent, nsig, export>>
    /\ UNCHANGED <<vfsVars, gateVars, umode>>

\* if *srvnfs { ... }: r is what srvNFS returned
ServeNFS(flag, r) ==
    /\ cpc = "nfs"
    /\ IF ~flag
       THEN cpc' = "go" /\ UNCHANGED <<env, ret, export>>
       ELSE IF r.err # "nil"
       THEN cpc' = "return" /\ ret' = r.err /\ UNCHANGED <<env, export>>
       ELSE /\ cpc' = "go"
            /\ env' = envWithFstab(env, r.fstab)
            /\ export' = [on |-> TRUE, fstab |-> r.fstab, opt |-> r.opt,
                          wrapped |-> r.wrapped, mounts |-> r.mounts]
            /\ UNCHANGED ret
    /\ UNCHANGED <<gpc, sigChan, errChan, notified, deferred, sent, nsig>>
    /\ UNCHANGED <<vfsVars, gateVars, umode>>

\* go func() { ... }(): the command goroutine is started
GoCmd ==
    /\ cpc = "go"
    /\ cpc' = "select"
    /\ gpc' = "start"
    /\ UNCHANGED <<sigChan, errChan, notified, deferred, env, ret, sent, nsig, export>>
    /\ UNCHANGED <<vfsVars, gateVars, umode>>

\* the goroutine: c.Start(), and errChan <- "Start: ..." when it fails
CmdStart(ok) ==
    /\ gpc = "start"
    /\ IF ok
       THEN gpc' = "wait" /\ UNCHANGED <<errChan, sent>>
       ELSE IF errChan.closed
       THEN gpc' = "panic" /\ UNCHANGED <<errChan, sent>>
       ELSE /\ Len(errChan.buf) < 1
            /\ errChan' = [errChan EXCEPT !.buf = Append(@, "Start")]
            /\ sent' = sent + 1
            /\ gpc' = "done"
    /\ UNCHANGED <<cpc, sigChan, notified, deferred, env, ret, nsig, export>>
    /\ UNCHANGED <<vfsVars, gateVars, umode>>

\* the goroutine: errChan <- c.Wait()
CmdWait(e) ==
    /\ gpc = "wait"
    /\ IF errChan.closed
       THEN gpc' = "panic" /\ UNCHANGED <<errChan, sent>>
       ELSE /\ Len(errChan.buf) < 1
            /\ errChan' = [errChan EXCEPT !.buf = Append(@, e)]
            /\ sent' = sent + 1
            /\ gpc' = "done"
    /\ UNCHANGED <<cpc, sigChan, notified, deferred, env, ret, nsig, export>>
    /\ UNCHANGED <<vfsVars, gateVars, umode>>

\* a signal reaches the process while signal.Notify is in force: the
\* runtime sends it on sigChan without blocking
Signal(sig) ==
    /\ notified
    /\ nsig < MaxSignals
    /\ nsig' = nsig + 1
    /\ IF sigChan.closed
       THEN cpc' = "panic" /\ UNCHANGED sigChan
       ELSE /\ sigChan' = IF Len(sigChan.buf) < 1
                          THEN [sigChan EXCEPT !.buf = Append(@, sig)]
                          ELSE sigChan
            /\ UNCHANGED cpc
    /\ UNCHANGED <<gpc, errChan, notified, deferred, env, ret, sent, export>>
    /\ UNCHANGED <<vfsVars, gateVars, umode>>

\* select: case sig := <-sigChan, the signal is passed on by sigerrors
SelectSig ==
    /\ cpc = "select"
    /\ sigChan.buf # << >>
    /\ sigChan' = [sigChan EXCEPT !.buf = Tail(@)]
    /\ UNCHANGED <<cpc, gpc, errChan, notified, deferred, env, ret, sent, nsig, export>>
    /\ UNCHANGED <<vfsVars, gateVars, umode>>

\* select: case err = <-errChan, then break loop and return err
SelectErr ==
    /\ cpc = "select"
    /\ errChan.buf # << >>
    /\ ret' = Head(errChan.buf)
    /\ errChan' = [errChan EXCEPT !.buf = Tail(@)]
    /\ cpc' = "return"
    /\ UNCHANGED <<gpc, sigChan, notified, deferred, env, sent, nsig, export>>
    /\ UNCHANGED <<vfsVars, gateVars, umode>>

\* newCPU returns: the deferred calls run, the last registered first
RunDeferred ==
    /\ cpc = "return"
    /\ IF deferred = << >>
       THEN cpc' = "done" /\ UNCHANGED <<sigChan, errChan, notified, deferred>>
       ELSE /\ deferred' = SubSeq(deferred, 1, Len(deferred) - 1)
            /\ errChan' = IF deferred[Len(deferred)] = "close(errChan)"
                          THEN [errChan EXCEPT !.closed = TRUE] ELSE errChan
            /\ sigChan' = IF deferred[Len(deferred)] = "close(sigChan)"
                          THEN [sigChan EXCEPT !.closed = TRUE] ELSE sigChan
            /\ notified' = IF deferred[Len(deferred)] = "signal.Stop"
                           THEN FALSE ELSE notified
            /\ UNCHANGED cpc
    /\ UNCHANGED <<gpc, env, ret, sent, nsig, export>>
    /\ UNCHANGED <<vfsVars, gateVars, umode>>

CpuStep ==
    \/ \E ok \in BOOLEAN : Dial(ok)
    \/ \E flag \in BOOLEAN, dir \in {<<"/", "h">>, <<"h">>},
          arch \in {"nil", "ErrInvalid"}, lis \in {"tcp4", "tcp6", "none"} :
          ServeNFS(flag, srvNFS(dir, arch, lis))
    \/ GoCmd
    \/ \E ok \in BOOLEAN : CmdStart(ok)
    \/ \E e \in {"nil", "ExitError"} : CmdWait(e)
    \/ \E sig \in {"os.Interrupt", "os.Kill"} : Signal(sig)
    \/ SelectSig
    \/ SelectErr
    \/ RunDeferred

CpuStart ==
    /\ ServingVfs /\ GateInit /\ CpuInit
    /\ umode = [u |-> 0, go |-> [perm |-> 0, type |-> "none"]]

\* newCPU with the remote command and the incoming signals
CpuSpec == CpuStart /\ [][CpuStep]_vars

----------------------------------------------------------------------------
(* Properties of the mount gate (GateSpec).                                *)

OkReturns == { k \in 1..Len(returned) : returned[k].status = "MountStatusOk" }

\* C1: across any sequence of Mount calls at most one returns
\* MountStatusOk, and every call after the first (in the order of the
\* increments) returns MountStatusErrPerm whatever its dirpath.
C1_SingleShot ==
    /\ Cardinality(OkReturns) <= 1
    /\ \A k \in 1..Len(returned) :
          returned[k].ticket > 1 => returned[k].status = "MountStatusErrPerm"

\* the first call was answered Ok and a later call with the nonce was refused
C1_Witness ==
    \E j, k \in 1..Len(returned) :
        /\ returned[j].ticket = 1 /\ returned[j].status = "MountStatusOk"
        /\ returned[k].ticket > 1 /\ returned[k].dirpath = Nonce
        /\ returned[k].status = "MountStatusErrPerm"

\* the first call, returned or still in flight, carries a dirpath that is
\* not the nonce
FirstCallWrong ==
    \/ \E w \in Workers : pc[w] = "check" /\ ticket[w] = 1 /\ req[w] # Nonce
    \/ \E k \in 1..Len(returned) : returned[k].ticket = 1 /\ returned[k].dirpath # Nonce

\* C2: a first Mount call with a dirpath other than the nonce returns
\* MountStatusErrNoEnt and uses up the one mount: every other call, the
\* nonce given or not, returns MountStatusErrPerm and none returns Ok.
C2_WrongNonceBurns ==
    FirstCallWrong =>
        /\ OkReturns = {}
        /\ \A k \in 1..Len(returned) :
              returned[k].status = IF returned[k].ticket = 1
                                   THEN "MountStatusErrNoEnt"
                                   ELSE "MountStatusErrPerm"

\* the first call had the wrong dirpath and got ErrNoEnt, a later one had
\* the nonce and got ErrPerm
C2_Witness ==
    /\ FirstCallWrong
    /\ \E j, k \in 1..Len(returned) :
          /\ returned[j].ticket = 1 /\ returned[j].status = "MountStatusErrNoEnt"
          /\ returned[k].ticket > 1 /\ returned[k].dirpath = Nonce
          /\ returned[k].status = "MountStatusErrPerm"

\* the calls, in flight or returned, that saw the counter at c
SawInFlight(c) == { w \in Workers : pc[w] = "check" /\ cval[w] = c }
SawReturned(c) == { k \in 1..Len(returned) : returned[k].c = c }

\* C3: with Mount calls running concurrently, in every interleaving exactly
\* one call observes the counter value 1 and no other call passes the test
\* of the count; so at most one call returns Ok and every call that saw
\* another value returns MountStatusErrPerm.
C3_OneObserver ==
    /\ issued > 0 => Cardinality(SawInFlight(1)) + Cardinality(SawReturned(1)) = 1
    /\ \A w \in Workers : pc[w] = "check" => cval[w] >= 1
    /\ \A k \in 1..Len(returned) :
          /\ returned[k].c >= 1
          /\ returned[k].c # 1 => returned[k].status = "MountStatusErrPerm"
    /\ Cardinality(OkReturns) <= 1

\* every worker is inside Mount at once, each with the nonce
C3_Witness ==
    /\ \A w \in Workers : pc[w] = "check" /\ req[w] = Nonce
    /\ Cardinality(SawInFlight(1)) = 1

----------------------------------------------------------------------------
(* Properties of the composite filesystem (Spec).                          *)

\* a path is under a mount prefix: equal to it, or it followed by "/"
Under(p, n) == p = n \/ HasPrefix(p, n \o Sep)

UnderSomeMount(p) == \E i \in 1..Len(mnts) : Under(p, mnts[i].n)

ReadOps  == { "Stat", "Lstat", "Open", "ReadDir", "Readlink" }
WriteOps == { "Create", "MkdirAll", "Remove", "Rename", "Symlink" }

\* C4: for a path under a mount, every read-side and write-side operation
\* is forwarded to that mount's filesystem, never answered from the
\* archive or by an unconditional permission error.
C4_AllOpsForwarded ==
    \A i \in 1..Len(mnts) :
        (last.op \in ReadOps \cup WriteOps /\ Under(last.path, mnts[i].n))
            => (last.via = "mount" /\ last.idx = i)

\* C5: a write-side operation none of whose paths is under a mount fails
\* with ErrPermission and changes neither the archive (records, index),
\* nor the mounts, nor any mounted filesystem.
C5_WriteOutsideDenied ==
    [][ (last'.op \in WriteOps /\ last.op = "none"
         /\ ~UnderSomeMount(last'.path) /\ ~UnderSomeMount(last'.path2))
        => (/\ last'.err = "ErrPermission"
            /\ last'.via # "mount"
            /\ recs' = recs /\ m' = m /\ mnts' = mnts /\ host' = host) ]_vars

\* a rename between two archive names, with a mount attached that holds a
\* file, was refused
C5_Witness ==
    /\ last.op = "Rename" /\ last.path = P_ab /\ last.path2 = P_hr
    /\ last.err = "ErrPermission"
    /\ Len(mnts) = 1 /\ P_x \in host[1].files
    /\ P_ab \in DOMAIN m

\* C6: hasMount/getfs matches a path to a mount if and only if the path is
\* the prefix or begins with the prefix followed by "/"; a path that only
\* shares the prefix as a string matches no mount and a call on it is
\* answered by the archive.
C6_MatchIffUnder ==
    /\ \A p \in QueryPaths : getfs(mnts, p).found <=> UnderSomeMount(p)
    /\ (last.op \in ReadOps /\ ~UnderSomeMount(last.path)) => last.via = "archive"

\* the names of a listing
EntryNames(es) == { es[k].name : k \in 1..Len(es) }

\* the direct children of the archive root, by index
RootChildren == { i \in 1..(Len(recs) - 1) : Dir(RecAt(recs, i).Name) = Dot }

\* C8: ReadDir("") returns exactly the names of the direct children of the
\* archive root and the prefixes of the mounts whose Lstat(".") succeeds.
C8_RootListing ==
    (last.op = "ReadDir" /\ last.path = Empty)
        => /\ last.via = "archive"
           /\ last.err = "nil"
           /\ EntryNames(last.val) =
                 { Base(RecAt(recs, i).Name) : i \in RootChildren }
                 \cup { mnts[i].n : i \in { j \in 1..Len(mnts) :
                                             OsLstat(host[j], Dot).err = "nil" } }

\* the root was listed with two archive children and a live mount in it
C8_Witness ==
    /\ last.op = "ReadDir" /\ last.path = Empty
    /\ Cardinality(RootChildren) >= 2
    /\ Len(mnts) = 1 /\ host[1].ok
    /\ mnts[1].n \in EntryNames(last.val)
    /\ mnts[1].n \notin Names(recs)

\* the records of which record d is the immediate parent
ChildrenOf(d) ==
    { i \in 0..(Len(recs) - 1) :
          i # d /\ Dir(RecAt(recs, i).Name) = Clean(RecAt(recs, d).Name) }

IsDirRec(d) == fstatMode(RecAt(recs, d)).type = "dir"

NoRepeat(list) == \A j, k \in 1..Len(list) : list[j] = list[k] => j = k

ListsChildren(list, d) ==
    NoRepeat(list) /\ { list[k] : k \in 1..Len(list) } = ChildrenOf(d)

\* the record entries of a listing, as record indices
RecIdx(es) ==
    [k \in 1..Cardinality({ j \in 1..Len(es) : es[j].kind = "rec" }) |-> es[k].idx]

\* C9: for an archive directory d, readdir(d) returns each record whose
\* immediate parent is d exactly once, no deeper descendant and no record
\* outside d, also when a deeper descendant lies between two children.
C9_DirectChildrenOnce ==
    /\ (phase = "serve" /\ last.op = "none") =>
          \A d \in 0..(Len(recs) - 1) :
              IsDirRec(d) =>
                  /\ readdir(recs, d).err = "nil"
                  /\ ListsChildren(readdir(recs, d).list, d)
                  /\ fileReadDir(recs, d, 0).err = "nil"
                  /\ ListsChildren(fileReadDir(recs, d, 0).list, d)
    /\ (/\ last.op = "ReadDir" /\ last.via = "archive"
        /\ lookup(m, last.path).err = "nil"
        /\ IsDirRec(lookup(m, last.path).Path))
           => (last.err = "nil"
               /\ ListsChildren(RecIdx(last.val), lookup(m, last.path).Path))

\* a directory was listed whose children a and l are parted by the deeper
\* record a/b
C9_Witness ==
    /\ last.op = "ReadDir" /\ last.via = "archive" /\ last.path = Dot
    /\ Len(recs) = 4
    /\ RecAt(recs, 1).Name = P_a /\ RecAt(recs, 2).Name = P_ab
    /\ RecAt(recs, 3).Name = P_l
    /\ RecIdx(last.val) = <<1, 3>>

\* the record of a path is a symlink
IsLinkPath(p) ==
    /\ Len(p) > 0
    /\ p \in DOMAIN m
    /\ fstatMode(RecAt(recs, m[p])).type = "symlink"

\* C10: for an archive path whose record is a symlink, Stat and Lstat both
\* return that record itself, of type symlink, never the link's target.
C10_StatKeepsLink ==
    (/\ last.op \in {"Stat", "Lstat"}
     /\ IsLinkPath(last.path)
     /\ ~getfs(mnts, last.path).found)
        => /\ last.via = "archive"
           /\ last.err = "nil"
           /\ RecAt(recs, last.val).Name = last.path
           /\ fstatMode(RecAt(recs, last.val)).type = "symlink"

\* Stat was called on the link l, which points at the directory a
C10_Witness ==
    /\ last.op = "Stat" /\ last.path = P_l
    /\ IsLinkPath(P_l)
    /\ RecAt(recs, m[P_l]).Data = P_a
    /\ P_a \in DOMAIN m
    /\ last.val = m[P_l]

\* C11: for the path of an archive record, Readlink succeeds, returning the
\* record's payload, exactly when Stat reports the type symlink; for any
\* other type it returns ErrInvalid.
C11_ReadlinkIffSymlink ==
    (/\ last.op = "Readlink" /\ last.via = "archive"
     /\ lookup(m, last.path).err = "nil")
        => IF fstatMode(RecAt(recs, Stat(recs, m, mnts, host, last.path).val)).type
                 = "symlink"
           THEN /\ last.err = "nil"
                /\ last.val = RecAt(recs, lookup(m, last.path).Path).Data
           ELSE last.err = "ErrInvalid"

\* Readlink of the link l gave its target a
C11_Witness ==
    /\ last.op = "Readlink" /\ last.path = P_l
    /\ IsLinkPath(P_l)
    /\ last.err = "nil" /\ last.val = P_a

\* C12: resolvelink never follows more than 20 links in one call: when it
\* returns it has made at most 20 successful traversals, and on a chain
\* that does not end (a cycle) it returns ELOOP.
C12_AtMostTwentyHops ==
    (last.op = "ReadDir" /\ last.via = "archive" /\ IsLinkPath(last.path))
        => /\ resolvelink(recs, m, mnts, host, last.path).hops <= MaxLinks
           /\ RecAt(recs, m[last.path]).Data = last.path
                 => resolvelink(recs, m, mnts, host, last.path).err = "ELOOP"

\* C13: on a handle opened on an archive name, WriteAt, Seek and Read each
\* return ErrPermission as an error value, and Close returns nil.
C13_HandleOnlyReadAt ==
    /\ last.op \in {"WriteAt", "Seek", "Read"} => last.err = "ErrPermission"
    /\ last.op = "Close" => last.err = "nil"

\* C14: Mount returns the filesystem and the auth flavors exactly with
\* MountStatusOk: then the exported filesystem and the list [AuthFlavorNull],
\* with any other status no filesystem and no flavor.
C14_FsOnlyWithOk ==
    \A k \in 1..Len(returned) :
        IF returned[k].status = "MountStatusOk"
        THEN returned[k].hndl = "fs" /\ returned[k].auths = <<"AuthFlavorNull">>
        ELSE returned[k].hndl = "nil" /\ returned[k].auths = << >>

\* calls have returned with each of the three statuses
C14_Witness ==
    /\ \E k \in 1..Len(returned) : returned[k].status = "MountStatusOk"
    /\ \E k \in 1..Len(returned) : returned[k].status = "MountStatusErrPerm"

\* the handler's own state
HandlerState == <<count, pc, req, cval, ticket, issued, returned>>

\* C15: ToHandle returns an empty byte string and FromHandle a nil
\* filesystem with no error, for every argument and every state of the
\* mount gate, and neither changes the handler's state.
C15_HandlesAreNull ==
    [][ (hlast.op = "none" /\ hlast'.op # "none")
        => (/\ hlast'.bytes = << >>
            /\ hlast'.fs = "nil" /\ hlast'.path = << >> /\ hlast'.err = "nil"
            /\ HandlerState' = HandlerState) ]_vars

\* ToHandle was called with a filesystem and a path after the mount was given
C15_Witness ==
    /\ hlast.op = "ToHandle" /\ hlast.f = "fs" /\ hlast.s # << >>
    /\ count > 0
    /\ \E k \in 1..Len(returned) : returned[k].status = "MountStatusOk"

\* C16: Stat of the empty path returns record 0, Stat of a record name
\* returns a record of exactly that name, Stat of any other name returns
\* ErrNotExist; the index maps every record name, and nothing else, to the
\* index of a record of that name.
C16_ArchiveLookup ==
    /\ phase = "serve" =>
          /\ DOMAIN m = Names(recs)
          /\ \A n \in DOMAIN m :
                m[n] \in 0..(Len(recs) - 1) /\ RecAt(recs, m[n]).Name = n
    /\ (last.op = "Stat" /\ last.via = "archive") =>
          IF last.path = Empty THEN last.err = "nil" /\ last.val = 0
          ELSE IF last.path \in Names(recs)
          THEN last.err = "nil" /\ RecAt(recs, last.val).Name = last.path
          ELSE last.err = "ErrNotExist"

\* Stat found the record a/b, which is not record 0
C16_Witness ==
    /\ last.op = "Stat" /\ last.path = P_ab /\ last.via = "archive"
    /\ last.err = "nil" /\ last.val = 2
    /\ Len(recs) = 4

\* C17: on a handle opened on a record's name, ReadAt at offset 0 with a
\* buffer of at least the record's size returns exactly the record's
\* payload, with no error or io.EOF, never another record's bytes.
C17_ReadAtPayload ==
    (/\ last.op = "ReadAt" /\ last.val.off = 0
     /\ last.val.want >= Len(RecAt(recs, lookup(m, last.path).Path).Data))
        => /\ last.val.n = Len(RecAt(recs, lookup(m, last.path).Path).Data)
           /\ last.val.bytes = RecAt(recs, lookup(m, last.path).Path).Data
           /\ last.err \in {"nil", "EOF"}

\* the file a/b was read whole into a larger buffer, next to a file with
\* another payload
C17_Witness ==
    /\ last.op = "ReadAt" /\ last.path = P_ab
    /\ last.val.off = 0 /\ last.val.want = 2
    /\ last.val.bytes = <<"H">> /\ last.val.n = 1
    /\ \E i \in 1..Len(recs) : recs[i].Data = <<"r">>

\* the name a link's target denotes: an absolute target is taken from the
\* archive root, a relative one from the link's directory
LinkTarget(p) ==
    IF IsAbs(RecAt(recs, m[p]).Data)
    THEN Clean(Tail(RecAt(recs, m[p]).Data))
    ELSE Join(Dir(p), RecAt(recs, m[p]).Data)

\* the name the chain of links from p ends at, k links followed at most
RECURSIVE ChainEnd(_, _)
ChainEnd(p, k) ==
    IF k = 0 \/ ~IsLinkPath(p) THEN p ELSE ChainEnd(LinkTarget(p), k - 1)

\* no name on the chain from p is owned by a mount
RECURSIVE ChainInArchive(_, _)
ChainInArchive(p, k) ==
    /\ ~getfs(mnts, p).found
    /\ k = 0 \/ ~IsLinkPath(p) \/ ChainInArchive(LinkTarget(p), k - 1)

EndsAtDir(p) ==
    /\ ChainInArchive(p, Len(recs))
    /\ ChainEnd(p, Len(recs)) \in DOMAIN m
    /\ IsDirRec(m[ChainEnd(p, Len(recs))])

\* C18: ReadDir of an archive path that is a symlink whose chain ends at an
\* archive directory returns exactly the direct children of that
\* directory, the link targets being relative or absolute.
C18_ReadDirThroughLink ==
    (/\ last.op = "ReadDir" /\ last.via = "archive"
     /\ IsLinkPath(last.path) /\ EndsAtDir(last.path))
        => /\ last.err = "nil"
           /\ ListsChildren(RecIdx(last.val), m[ChainEnd(last.path, Len(recs))])

\* C19: the path handed to a mount is the remainder of the path after the
\* prefix: the mount root when the path is the prefix, and never a path
\* that begins with "..".
C19_RemainderUnderMount ==
    last.via = "mount" =>
        /\ last.idx \in 1..Len(mnts)
        /\ IF last.path = mnts[last.idx].n
           THEN last.rel \in {Dot, Empty}
           ELSE mnts[last.idx].n \o Sep \o last.rel = last.path
        /\ ~HasPrefix(last.rel, DotDot)

\* two prefixes collide: one is the other or lies under it
Collide(a, b) == Under(a, b) \/ Under(b, a)

NonColliding(ps) ==
    \A i, j \in 1..Len(ps) : i < j => ~Collide(ps[i], ps[j])

\* C20: NewfsCPIO attaches the mounts in argument order and fails with
\* ErrExist exactly when a prefix collides with one attached before it; a
\* list of pairwise non-colliding prefixes becomes the mount list.
C20_MountsAcceptedIffDistinct ==
    (last.op = "NewfsCPIO" /\ Len(recs) > 0) =>
        IF NonColliding(last.val)
        THEN /\ last.err = "nil" /\ phase = "serve"
             /\ [i \in 1..Len(mnts) |-> mnts[i].n] = last.val
        ELSE last.err = "ErrExist" /\ phase = "failed"

\* a path matched by some mount, as getfs decides
Matched(p) == getfs(mnts, p).found

\* one path lies under a mount and the other is matched by no mount
CrossRename(o, n) ==
    \/ UnderSomeMount(o) /\ ~Matched(n)
    \/ ~Matched(o) /\ UnderSomeMount(n)

\* C21: Rename(old, new) with old under a mount and new matched by no mount,
\* or old archive-backed and new under a mount, fails with a cross-device
\* or a permission error and leaves the mounted filesystem as it was.
C21_CrossRenameFails ==
    [][ (last.op = "none" /\ last'.op = "Rename"
         /\ CrossRename(last'.path, last'.path2))
        => (/\ last'.err \in {"ErrPermission", "EXDEV"}
            /\ host' = host) ]_vars

\* the file h/x of the mount h was to be renamed to the archive name a/b
C21_Witness ==
    /\ last.op = "Rename" /\ last.path = P_hx /\ last.path2 = P_ab
    /\ Len(mnts) = 1 /\ mnts[1].n = P_h /\ P_x \in host[1].files
    /\ P_ab \in DOMAIN m
    /\ last.err = "ErrPermission"

\* C23: the two spellings of the root are equivalent: for any mount list
\* Stat and ReadDir called with "." return what they return for "", so
\* ReadDir(".") also holds the entry of every mount.
C23_RootSpellings ==
    (phase = "serve" /\ last.op = "none") =>
        /\ Stat(recs, m, mnts, host, Dot) = Stat(recs, m, mnts, host, Empty)
        /\ ReadDir(recs, m, mnts, host, Dot) = ReadDir(recs, m, mnts, host, Empty)

C25_CounterNeverWraps ==
    [][ /\ count' >= count
        /\ count' # count => (count < MaxInt32 /\ count' = count + 1)
        /\ \A k \in 1..Len(returned') :
              returned'[k].c # 1 => returned'[k].status = "MountStatusErrPerm" ]_vars

\* C26: no operation on a path (Stat, Lstat, Open, ReadDir, Readlink) and
\* no operation on an archive handle (Read, Write, Seek, ReadAt) panics:
\* every failure is returned as an error value.
C26_NeverPanics ==
    last.op \in ReadOps \cup {"Read", "Write", "Seek", "ReadAt"}
        => last.err # "panic"

\* the file type field of a Unix mode word (mode & 0170000, shifted)
UnixType(u) == (u \div 4096) % 16

\* the types the mapping has to tell apart, by their Unix type field
GoTypeOf ==
    (1 :> "pipe") @@ (2 :> "char") @@ (4 :> "dir") @@ (6 :> "device")
        @@ (8 :> "regular") @@ (10 :> "symlink")

\* C27: for every Unix mode word uToGo tells regular file, directory,
\* symlink, FIFO, character device and block device apart by type and keeps
\* the low 12 permission bits (rwx, setuid, setgid, sticky) of the word.
C27_ModeMapping ==
    umode.go.type # "none" =>
        /\ UnixType(umode.u) \in DOMAIN GoTypeOf
              => umode.go.type = GoTypeOf[UnixType(umode.u)]
        /\ umode.go.perm = umode.u % 4096

\* C28: the fstab line srvNFS returns carries the option rw exactly when a
\* writable mount is attached to the exported filesystem (every mount is a
\* writable passthrough), ro otherwise, and the read-only wrapper is on the
\* exported filesystem exactly when no such mount is attached.
C28_AccessModeConsistent ==
    export.on =>
        /\ export.opt = (IF Len(export.mounts) > 0 THEN "rw" ELSE "ro")
        /\ export.wrapped = (Len(export.mounts) = 0)

\* the entries of e that set CPU_FSTAB
FstabEntries(e) == { i \in 1..Len(e) : HasPrefix(e[i], <<"CPU_FSTAB", "=">>) }

\* the value CPU_FSTAB has in e, which sets it at most once: what follows
\* the first "=" of its entry, empty when it is not set
PreviousFstab(e) ==
    IF FstabEntries(e) = {} THEN << >>
    ELSE AfterEq(e[CHOOSE i \in FstabEntries(e) : TRUE], 1)

C30_ChannelsSafe ==
    /\ sent <= 1
    /\ gpc = "done" <=> (sent = 1)
    /\ gpc \in {"start", "wait"} => (errChan.buf = << >> /\ ~errChan.closed)
    /\ (gpc # "none" /\ cpc \in {"return", "done"})
          => (gpc = "done" /\ errChan.buf = << >>)
    /\ errChan.closed => gpc \in {"none", "done"}
    /\ sigChan.closed => ~notified
    /\ cpc # "panic" /\ gpc # "panic"

\* newCPU has returned the command's result after passing a signal on,
\* both channels closed, a further signal having arrived meanwhile
C30_Witness ==
    /\ cpc = "done" /\ gpc = "done" /\ sent = 1
    /\ ret = "ExitError"
    /\ nsig >= 2
    /\ sigChan.closed /\ errChan.closed /\ ~notified
    /\ sigChan.buf # << >>

====
